---------------------------- MODULE Spec2Model ----------------------------
(***************************************************************************)
(* A model of remco's template resource (pkg/template/resource.go): the    *)
(* per-backend stores and their merge (setVars), the render pipeline       *)
(* (createStageFileAndSync, process) and the goroutines of                 *)
(* Resource.Monitor with the channels between them.                        *)
(*                                                                         *)
(* Strings that the code takes apart (keys, prefixes) are sequences of     *)
(* one-character strings, so that strings.TrimPrefix and path.Join are     *)
(* computed on characters, as the code computes them.  The alphabet holds  *)
(* no ".", so path.Clean's treatment of "." and ".." never applies.        *)
(*                                                                         *)
(* A Backend value is identified by its index in t.backends: the copies    *)
(* handed to the goroutines share the store pointer of that element.       *)
(***************************************************************************)
EXTENDS Integers, Sequences, FiniteSets, TLC

VARIABLES
    backends,     \* t.backends: sequence of [Name, Prefix, Keys, Watch, Interval, Onetime]
    bstore,       \* t.backends[i].store: the private store of each backend
    store,        \* t.store: the merged store
    sources,      \* t.sources: the renderers
    dst,          \* the destination file of each renderer
    remote,       \* the <<key, value>> pairs the remote side of each backend may hold
    Failed,       \* t.Failed
    monitorPc,    \* where the Monitor goroutine is
    procArg,      \* the storeClients argument of the process call in progress
    changed,      \* Monitor's local: changed, as returned by process
    err,          \* Monitor's local: err, as returned by process
    ctxDone,      \* the context is cancelled: by the caller, or by Monitor's cancel()
    retryChan,    \* number of tokens in retryChan (capacity 1)
    timers,       \* number of retry goroutines in time.Sleep
    sending,      \* number of retry goroutines past their ctx check, about to send
    child,        \* the executor's child process
    watchdog,     \* the goroutine running exec.Wait
    workerPc,     \* the watch and interval goroutines
    wg,           \* the wait group's counter
    waiter,       \* the goroutine running wg.Wait(); close(done)
    drain,        \* the goroutine draining processChan on shutdown
    processChan,  \* "open" or "closed"; unbuffered, so it holds nothing
    errChan,      \* buffered channel of BackendErrors (their Backend names)
    SignalChan,   \* t.SignalChan, capacity 1
    inProcess,    \* number of process calls in progress
    inReload,     \* number of exec.Reload calls in progress
    spawnErr,     \* history: exec.SpawnChild returned an error in this run
    waitTrue,     \* history: exec.Wait returned true in this run
    cancelInSleep, \* history: the caller cancelled ctx during the retry delay
    spawnOk,      \* history: exec.SpawnChild returned nil in this run
    reloadErr,    \* Monitor's local: the err of exec.Reload is not nil
    sigArg,       \* the signal of the exec.SignalChild call in progress
    stopCalls,    \* number of exec.StopChild calls of this run
    newErr,       \* what construction returned: "none" before it, "nil" for a Resource
    closed        \* the backends NewResourceFromResourceConfig has closed

vars == <<backends, bstore, store, sources, dst, remote, Failed, monitorPc,
          procArg, changed, err, ctxDone, retryChan, timers, sending,
          child, watchdog, workerPc, wg, waiter, drain, processChan, errChan,
          SignalChan, inProcess, inReload, spawnErr, waitTrue, cancelInSleep,
          spawnOk, reloadErr, sigArg, stopCalls, newErr, closed>>

dataVars == <<bstore, store, dst>>
confVars == <<backends, sources, remote, newErr, closed>>
histVars == <<spawnErr, waitTrue, cancelInSleep, spawnOk>>
execVars == <<reloadErr, sigArg, stopCalls>>

-----------------------------------------------------------------------------
(* Bounds and program constants *)

\* number of distinct values a key may take at a backend
MaxValues == 2

\* number of backends and of renderers handed to the constructors
MaxBackends == 2
MaxSources == 2

\* capacity of errChan
ErrChanCap == 10

\* capacity of retryChan
RetryChanCap == 1

\* capacity of SignalChan
SignalChanCap == 1

\* the interval NewResource falls back to
DefaultInterval == 60

Values == 1..MaxValues

Signals == {"SIGHUP", "SIGUSR1"}

-----------------------------------------------------------------------------
(* Strings and paths *)

HasPrefix(s, p) == Len(s) >= Len(p) /\ SubSeq(s, 1, Len(p)) = p

\* strings.TrimPrefix
TrimPrefix(s, p) == IF HasPrefix(s, p) THEN SubSeq(s, Len(p) + 1, Len(s)) ELSE s

RECURSIVE Collapse(_)
Collapse(s) ==
    IF Len(s) <= 1 THEN s
    ELSE IF s[1] = "/" /\ s[2] = "/" THEN Collapse(Tail(s))
    ELSE <<s[1]>> \o Collapse(Tail(s))

\* path.Clean on strings without "." elements
Clean(s) ==
    LET c == Collapse(s)
    IN  IF Len(c) > 1 /\ c[Len(c)] = "/" THEN SubSeq(c, 1, Len(c) - 1) ELSE c

\* path.Join of two elements: empty elements are ignored, the result is cleaned
PathJoin(a, b) ==
    IF a = <<>> THEN (IF b = <<>> THEN <<>> ELSE Clean(b))
    ELSE IF b = <<>> THEN Clean(a)
    ELSE Clean(a \o <<"/">> \o b)

appendPrefix(prefix, keys) == {PathJoin(prefix, keys[i]) : i \in DOMAIN keys}

-----------------------------------------------------------------------------
(* Stores *)

EmptyStore == [k \in {} |-> 0]

\* memkv Set of every pair of g into f
SetAll(f, g) ==
    [k \in DOMAIN f \cup DOMAIN g |-> IF k \in DOMAIN g THEN g[k] ELSE f[k]]

\* the key under which setVars stores a fetched key
StoreKey(b, key) == PathJoin(<<"/">>, TrimPrefix(key, b.Prefix))

\* what GetValues may return for backend i: a map over some of the remote
\* keys that lie under one of the queried keys
GetValuesResults(i) ==
    LET q == appendPrefix(backends[i].Prefix, backends[i].Keys)
        under == {kv[1] : kv \in {x \in remote[i] : \E p \in q : HasPrefix(x[1], p)}}
    IN  UNION {{f \in [K -> Values] : \A k \in K : <<k, f[k]>> \in remote[i]} :
                  K \in SUBSET under}

\* the private store after Purge and the Set loop over result; Go ranges over
\* the map in any order, so two fetched keys with one store key leave either
BackendStores(i, result) ==
    LET ks == {StoreKey(backends[i], k) : k \in DOMAIN result}
    IN  {s \in [ks -> Values] :
            \A sk \in ks : \E k \in DOMAIN result :
                StoreKey(backends[i], k) = sk /\ s[sk] = result[k]}

\* the outcomes of the fetch of setVars: an error of GetValues, or a new
\* private store
Fetches(i) ==
    {[ok |-> FALSE, st |-> EmptyStore]} \cup
    {[ok |-> TRUE, st |-> s] :
        s \in UNION {BackendStores(i, r) : r \in GetValuesResults(i)}}

\* "merge all stores": the merged store is purged and rebuilt from the
\* private stores in the order of t.backends
RECURSIVE MergeFrom(_, _, _)
MergeFrom(i, bs, acc) ==
    IF i > Len(bs) THEN acc ELSE MergeFrom(i + 1, bs, SetAll(acc, bs[i]))

\* MergeStores over the backends in reverse
MergeFirstWins(bs) ==
    LET RECURSIVE Rev(_, _)
        Rev(i, acc) == IF i < 1 THEN acc ELSE Rev(i - 1, SetAll(acc, bs[i]))
    IN  Rev(Len(bs), EmptyStore)

MergeStores(bs) == MergeFrom(1, bs, EmptyStore)

NoErr == [kind |-> "nil", Backend |-> ""]
BackendError(name) == [kind |-> "BackendError", Backend |-> name]
RenderError == [kind |-> "error", Backend |-> ""]

\* setVars with storeClient.store.Purge() before the call of GetValues
setVarsPurgesFirst(i, f, bs, st) ==
    IF ~f.ok THEN [bstore |-> [bs EXCEPT ![i] = EmptyStore], store |-> st,
                   ok |-> FALSE]
    ELSE LET nbs == [bs EXCEPT ![i] = f.st]
         IN  [bstore |-> nbs, store |-> MergeStores(nbs), ok |-> TRUE]

\* setVars with the Purge on every backend's store, not on storeClient's only
setVarsPurgesAll(i, f, bs, st) ==
    IF ~f.ok THEN [bstore |-> bs, store |-> st, ok |-> FALSE]
    ELSE LET nbs == [j \in DOMAIN bs |-> IF j = i THEN f.st ELSE EmptyStore]
         IN  [bstore |-> nbs, store |-> MergeStores(nbs), ok |-> TRUE]

\* setVars(t.backends[i]) with fetch outcome f, from private stores bs and
\* merged store st
setVars(i, f, bs, st) ==
    IF ~f.ok THEN [bstore |-> bs, store |-> st, ok |-> FALSE]
    ELSE LET nbs == [bs EXCEPT ![i] = f.st]
         IN  [bstore |-> nbs, store |-> MergeStores(nbs), ok |-> TRUE]

-----------------------------------------------------------------------------
(* Renderers *)

Absent == [exists |-> FALSE, bytes |-> EmptyStore]

\* the bytes a template renders to are a function of the merged store
Render(src, st) == st

\* what can happen to one renderer in one pass
Outcomes == {"ok", "stageErr", "checkErr", "renameErr", "reloadErr"}

\* Renderer.syncFiles on destination d with the staged bytes
syncFiles(d, staged, o) ==
    LET swapped == [exists |-> TRUE, bytes |-> staged]
    IN  IF d.exists /\ d.bytes = staged
            THEN [dst |-> d, changed |-> FALSE, failed |-> FALSE]
        ELSE IF d.exists /\ o = "checkErr"
            THEN [dst |-> d, changed |-> FALSE, failed |-> TRUE]
        ELSE IF o = "renameErr"
            THEN [dst |-> d, changed |-> FALSE, failed |-> TRUE]
        ELSE IF o = "reloadErr"
            THEN [dst |-> swapped, changed |-> TRUE, failed |-> TRUE]
        ELSE [dst |-> swapped, changed |-> TRUE, failed |-> FALSE]

RECURSIVE StageAndSync(_, _, _, _, _)
StageAndSync(i, outs, st, d, ch) ==
    IF i > Len(sources) THEN [dst |-> d, changed |-> ch, err |-> NoErr]
    ELSE IF outs[i] = "stageErr"
        THEN [dst |-> d, changed |-> ch, err |-> RenderError]
    ELSE LET r == syncFiles(d[i], Render(sources[i].Src, st), outs[i])
             nd == [d EXCEPT ![i] = r.dst]
             c == ch \/ r.changed
         IN  IF r.failed THEN [dst |-> nd, changed |-> c, err |-> RenderError]
             ELSE StageAndSync(i + 1, outs, st, nd, c)

\* Resource.createStageFileAndSync
createStageFileAndSync(outs, st, d) == StageAndSync(1, outs, st, d, FALSE)

\* Resource.process(storeClients): fs[j] is the fetch outcome of
\* storeClients[j], outs[i] what happens to renderer i
RECURSIVE ProcessFrom(_, _, _, _, _, _, _)
ProcessFrom(j, clients, fs, outs, bs, st, d) ==
    IF j > Len(clients)
        THEN LET r == createStageFileAndSync(outs, st, d)
             IN  [bstore |-> bs, store |-> st, dst |-> r.dst,
                  changed |-> r.changed, err |-> r.err]
    ELSE LET r == setVars(clients[j], fs[j], bs, st)
         IN  IF ~r.ok
                 THEN [bstore |-> r.bstore, store |-> r.store, dst |-> d,
                       changed |-> FALSE,
                       err |-> BackendError(backends[clients[j]].Name)]
             ELSE ProcessFrom(j + 1, clients, fs, outs, r.bstore, r.store, d)

process(clients, fs, outs) == ProcessFrom(1, clients, fs, outs, bstore, store, dst)

\* the fetch outcomes the environment may present to one call: one for each
\* of storeClients
RECURSIVE FetchSeqs(_, _)
FetchSeqs(clients, j) ==
    IF j > Len(clients) THEN {<<>>}
    ELSE {<<f>> \o rest : f \in Fetches(clients[j]), rest \in FetchSeqs(clients, j + 1)}

FetchChoices(clients) == FetchSeqs(clients, 1)

\* what may happen to each renderer in one call
RenderChoices == [1..Len(sources) -> Outcomes]

\* what one call of process may do and return
ProcessResults(clients) ==
    {process(clients, fs, outs) : fs \in FetchChoices(clients), outs \in RenderChoices}

AllBackends == [i \in 1..Len(backends) |-> i]

-----------------------------------------------------------------------------
(* Construction *)

\* NewResourceBackends with the default for negative intervals only
NewResourceBackendsNegative(bs) ==
    [i \in DOMAIN bs |->
        IF bs[i].Interval < 0 /\ ~bs[i].Onetime /\ ~bs[i].Watch
            THEN [bs[i] EXCEPT !.Interval = DefaultInterval]
        ELSE bs[i]]

\* NewResource's loop over the backends: the interval default
NewResourceBackends(bs) ==
    [i \in DOMAIN bs |->
        IF bs[i].Interval <= 0 /\ ~bs[i].Onetime /\ ~bs[i].Watch
            THEN [bs[i] EXCEPT !.Interval = DefaultInterval]
        ELSE bs[i]]

\* NewResource without the test of the renderers' Src
NewResourceAnySrc(bs, srcs) ==
    IF Len(bs) = 0
        THEN [err |-> "noBackends", backends |-> bs]
    ELSE [err |-> "nil", backends |-> NewResourceBackends(bs)]

\* NewResource(backends, sources, name, exec): the error it returns, "nil"
\* with a Resource, and the backends as it leaves them
NewResource(bs, srcs) ==
    IF Len(bs) = 0
        THEN [err |-> "noBackends", backends |-> bs]
    ELSE IF \E i \in DOMAIN srcs : srcs[i].Src = ""
        THEN [err |-> "ErrEmptySrc", backends |-> bs]
    ELSE [err |-> "nil", backends |-> NewResourceBackends(bs)]

Slash == <<"/">>

\* the watch and interval goroutines Monitor may start: <<kind, backend>>
Workers == {"watch", "interval"} \X (1..Len(backends))

\* the state of a resource whose Monitor has not run
NotStarted ==
    /\ procArg = <<>>
    /\ changed = FALSE
    /\ err = NoErr
    /\ ctxDone = FALSE
    /\ retryChan = 0
    /\ timers = 0
    /\ sending = 0
    /\ child = "none"
    /\ watchdog = "none"
    /\ workerPc = [w \in Workers |-> "none"]
    /\ wg = 0
    /\ waiter = "none"
    /\ drain = FALSE
    /\ processChan = "closed"
    /\ errChan = <<>>
    /\ SignalChan = <<>>
    /\ inProcess = 0
    /\ inReload = 0
    /\ spawnErr = FALSE
    /\ waitTrue = FALSE
    /\ cancelInSleep = FALSE
    /\ spawnOk = FALSE
    /\ reloadErr = FALSE
    /\ sigArg = "none"
    /\ stopCalls = 0

\* what holds after construction, under any configuration
InitRun ==
    /\ monitorPc = "idle"
    /\ newErr = "nil"
    /\ closed = {}
    /\ NotStarted

\* a resource of two backends, one watched and one polled, and two renderers
Init ==
    /\ backends = NewResourceBackends(<<
           [Name |-> "b1", Prefix |-> <<"/", "a">>, Keys |-> <<Slash>>,
            Watch |-> TRUE, Interval |-> 0, Onetime |-> FALSE],
           [Name |-> "b2", Prefix |-> <<"/", "b">>, Keys |-> <<Slash>>,
            Watch |-> FALSE, Interval |-> 0, Onetime |-> FALSE]>>)
    /\ sources = <<[Src |-> "t1"], [Src |-> "t2"]>>
    /\ remote = <<{<<(<<"/", "a", "/", "x">>), 1>>}, {}>>
    /\ bstore = [i \in 1..Len(backends) |-> EmptyStore]
    /\ store = EmptyStore
    /\ dst = [i \in 1..Len(sources) |-> Absent]
    /\ Failed = FALSE
    /\ InitRun

-----------------------------------------------------------------------------
(* Monitor: entry and the initial retry loop *)

\* every goroutine of an earlier run has ended
Quiescent ==
    /\ timers = 0
    /\ sending = 0
    /\ waiter # "waiting"
    /\ ~drain

\* MonitorEnter without "t.Failed = false"
MonitorEnterKeepsFailed ==
    /\ monitorPc \in {"idle", "returned"}
    /\ Quiescent
    /\ Failed' = Failed
    /\ ctxDone' = FALSE
    /\ processChan' = "open"
    /\ errChan' = <<>>
    /\ retryChan' = 1
    /\ wg' = 0
    /\ waiter' = "none"
    /\ watchdog' = "none"
    /\ workerPc' = [w \in Workers |-> "none"]
    /\ spawnErr' = FALSE
    /\ waitTrue' = FALSE
    /\ cancelInSleep' = FALSE
    /\ spawnOk' = FALSE
    /\ reloadErr' = FALSE
    /\ sigArg' = "none"
    /\ stopCalls' = 0
    /\ monitorPc' = "retry"
    /\ UNCHANGED <<confVars, dataVars, procArg, changed, err, timers, sending,
                   child, drain, SignalChan, inProcess, inReload>>

MonitorEnter ==
    /\ monitorPc \in {"idle", "returned"}
    /\ Quiescent
    /\ Failed' = FALSE
    /\ ctxDone' = FALSE
    /\ processChan' = "open"
    /\ errChan' = <<>>
    /\ retryChan' = 1
    /\ wg' = 0
    /\ waiter' = "none"
    /\ watchdog' = "none"
    /\ workerPc' = [w \in Workers |-> "none"]
    /\ spawnErr' = FALSE
    /\ waitTrue' = FALSE
    /\ cancelInSleep' = FALSE
    /\ spawnOk' = FALSE
    /\ reloadErr' = FALSE
    /\ sigArg' = "none"
    /\ stopCalls' = 0
    /\ monitorPc' = "retry"
    /\ UNCHANGED <<confVars, dataVars, procArg, changed, err, timers, sending,
                   child, drain, SignalChan, inProcess, inReload>>

\* "return" with the deferred calls, last first: exec.StopChild() when
\* SpawnChild had succeeded, close(processChan), cancel()
Return(stopChild) ==
    /\ monitorPc' = "returned"
    /\ child' = IF stopChild THEN "none" ELSE child
    /\ stopCalls' = IF stopChild THEN stopCalls + 1 ELSE stopCalls
    /\ processChan' = "closed"
    /\ drain' = FALSE
    /\ ctxDone' = TRUE

MonitorRetryCtxDone ==
    /\ monitorPc = "retry"
    /\ ctxDone
    /\ Return(FALSE)
    /\ UNCHANGED <<confVars, dataVars, Failed, procArg, changed, err, retryChan, timers, sending, watchdog, workerPc, wg, waiter,
                   errChan, SignalChan, inProcess, inReload, histVars, reloadErr, sigArg>>

MonitorRetryRecv ==
    /\ monitorPc = "retry"
    /\ retryChan > 0
    /\ retryChan' = retryChan - 1
    /\ procArg' = AllBackends
    /\ inProcess' = inProcess + 1
    /\ monitorPc' = "initProcess"
    /\ UNCHANGED <<confVars, dataVars, Failed, changed, err, ctxDone, timers, sending, child, watchdog, workerPc, wg, waiter, drain,
                   processChan, errChan, SignalChan, inReload, histVars, execVars>>

\* t.process(t.backends) returns
MonitorInitProcessReturns ==
    /\ monitorPc = "initProcess"
    /\ \E r \in ProcessResults(procArg) :
          /\ bstore' = r.bstore
          /\ store' = r.store
          /\ dst' = r.dst
          /\ err' = r.err
    /\ inProcess' = inProcess - 1
    /\ monitorPc' = "initBranch"
    /\ UNCHANGED <<confVars, Failed, procArg, changed, ctxDone, retryChan, timers, sending, child, watchdog, workerPc, wg,
                   waiter, drain, processChan, errChan, SignalChan, inReload,
                   histVars, execVars>>

\* MonitorInitBranch with "break retryloop" whatever process returned
MonitorInitBranchNoRetry ==
    /\ monitorPc = "initBranch"
    /\ timers' = timers
    /\ monitorPc' = "spawn"
    /\ err' = NoErr
    /\ procArg' = <<>>
    /\ UNCHANGED <<confVars, dataVars, Failed, changed, ctxDone, retryChan,
                   sending, child, watchdog, workerPc, wg, waiter, drain,
                   processChan, errChan, SignalChan, inProcess, inReload,
                   histVars, execVars>>

\* MonitorInitBranch without the retry goroutine
MonitorInitBranchNoTimer ==
    /\ monitorPc = "initBranch"
    /\ timers' = timers
    /\ monitorPc' = IF err # NoErr THEN "retry" ELSE "spawn"
    /\ err' = NoErr
    /\ procArg' = <<>>
    /\ UNCHANGED <<confVars, dataVars, Failed, changed, ctxDone, retryChan,
                   sending, child, watchdog, workerPc, wg, waiter, drain,
                   processChan, errChan, SignalChan, inProcess, inReload,
                   histVars, execVars>>

\* on an error: log it, start the retry goroutine, continue retryloop;
\* otherwise break retryloop
MonitorInitBranch ==
    /\ monitorPc = "initBranch"
    /\ IF err # NoErr
           THEN /\ timers' = timers + 1
                /\ monitorPc' = "retry"
           ELSE /\ timers' = timers
                /\ monitorPc' = "spawn"
    /\ err' = NoErr
    /\ procArg' = <<>>
    /\ UNCHANGED <<confVars, dataVars, Failed, changed, ctxDone, retryChan, sending, child, watchdog, workerPc, wg, waiter,
                   drain, processChan, errChan, SignalChan, inProcess, inReload,
                   histVars, execVars>>

\* RetryWake without the look at ctx: the token is sent after every sleep
RetryWakeNoCtx ==
    /\ timers > 0
    /\ timers' = timers - 1
    /\ sending' = sending + 1
    /\ UNCHANGED <<confVars, dataVars, Failed, monitorPc, procArg, changed, err,
                   ctxDone, retryChan, child, watchdog, workerPc, wg, waiter,
                   drain, processChan, errChan, SignalChan, inProcess, inReload,
                   histVars, execVars>>

\* the retry goroutine wakes from time.Sleep and looks at ctx
RetryWake ==
    /\ timers > 0
    /\ timers' = timers - 1
    /\ sending' = IF ctxDone THEN sending ELSE sending + 1
    /\ UNCHANGED <<confVars, dataVars, Failed, monitorPc, procArg, changed, err,
                   ctxDone, retryChan, child, watchdog, workerPc, wg,
                   waiter, drain, processChan, errChan, SignalChan, inProcess,
                   inReload, histVars, execVars>>

\* retryChan <- struct{}{}
RetrySend ==
    /\ sending > 0
    /\ retryChan < RetryChanCap
    /\ retryChan' = retryChan + 1
    /\ sending' = sending - 1
    /\ UNCHANGED <<confVars, dataVars, Failed, monitorPc, procArg, changed, err,
                   ctxDone, timers, child, watchdog, workerPc, wg,
                   waiter, drain, processChan, errChan, SignalChan, inProcess,
                   inReload, histVars, execVars>>

-----------------------------------------------------------------------------
(* Monitor: the child and the goroutines *)

\* MonitorSpawn without cancel() on an error
MonitorSpawnNoCancel ==
    /\ monitorPc = "spawn"
    /\ \E ok \in BOOLEAN :
          IF ok
              THEN /\ child' = "running"
                   /\ spawnOk' = TRUE
                   /\ UNCHANGED <<Failed, ctxDone, spawnErr>>
              ELSE /\ Failed' = TRUE
                   /\ ctxDone' = ctxDone
                   /\ spawnErr' = TRUE
                   /\ spawnOk' = spawnOk
                   /\ child' = "none"
    /\ monitorPc' = "start"
    /\ UNCHANGED <<confVars, dataVars, procArg, changed, err, retryChan, timers,
                   sending, watchdog, workerPc, wg, waiter, drain, processChan,
                   errChan, SignalChan, inProcess, inReload, waitTrue,
                   cancelInSleep, execVars>>

\* err := t.exec.SpawnChild() and the branch on it
MonitorSpawn ==
    /\ monitorPc = "spawn"
    /\ \E ok \in BOOLEAN :
          IF ok
              THEN /\ child' = "running"
                   /\ spawnOk' = TRUE
                   /\ UNCHANGED <<Failed, ctxDone, spawnErr>>
              ELSE /\ Failed' = TRUE
                   /\ ctxDone' = TRUE
                   /\ spawnErr' = TRUE
                   /\ spawnOk' = spawnOk
                   /\ child' = "none"
    /\ monitorPc' = "start"
    /\ UNCHANGED <<confVars, dataVars, procArg, changed, err, retryChan, timers, sending, watchdog, workerPc, wg, waiter,
                   drain, processChan, errChan, SignalChan, inProcess, inReload,
                   waitTrue, cancelInSleep, execVars>>

\* the goroutines Monitor starts for backend i
Started(w) ==
    \/ w[1] = "watch" /\ backends[w[2]].Watch
    \/ w[1] = "interval" /\ backends[w[2]].Interval > 0

\* the watchdog, the watch and interval goroutines and the wg.Wait goroutine
MonitorStart ==
    /\ monitorPc = "start"
    /\ watchdog' = "waiting"
    /\ workerPc' = [w \in Workers |-> IF Started(w) THEN "run" ELSE "none"]
    /\ wg' = 1 + Cardinality({w \in Workers : Started(w)})
    /\ waiter' = "waiting"
    /\ monitorPc' = "select"
    /\ UNCHANGED <<confVars, dataVars, Failed, procArg, changed, err, ctxDone,
                   retryChan, timers, sending, child, drain,
                   processChan, errChan, SignalChan, inProcess, inReload,
                   histVars, execVars>>

\* failed := t.exec.Wait(ctx): true when the child exited while ctx was live;
\* on a cancelled ctx the child is killed and Wait returns false
WatchdogWaitReturns ==
    /\ watchdog = "waiting"
    /\ ctxDone \/ child = "exited"
    /\ IF child = "exited"
           THEN /\ Failed' = TRUE
                /\ ctxDone' = TRUE
                /\ waitTrue' = TRUE
           ELSE UNCHANGED <<Failed, ctxDone, waitTrue>>
    /\ child' = "none"
    /\ watchdog' = "done"
    /\ wg' = wg - 1
    /\ UNCHANGED <<confVars, dataVars, monitorPc, procArg, changed, err,
                   retryChan, timers, sending, workerPc, waiter,
                   drain, processChan, errChan, SignalChan, inProcess, inReload,
                   spawnErr, cancelInSleep, spawnOk, execVars>>

\* wg.Wait(); close(done)
WaiterClose ==
    /\ waiter = "waiting"
    /\ wg = 0
    /\ waiter' = "closed"
    /\ UNCHANGED <<confVars, dataVars, Failed, monitorPc, procArg, changed, err,
                   ctxDone, retryChan, timers, sending, child,
                   watchdog, workerPc, wg, drain, processChan, errChan,
                   SignalChan, inProcess, inReload, histVars, execVars>>

-----------------------------------------------------------------------------
(* The watch and interval goroutines of a backend *)

workerFrame ==
    UNCHANGED <<confVars, dataVars, Failed, monitorPc, procArg, changed, err,
                ctxDone, retryChan, timers, sending, child, watchdog,
                waiter, drain, processChan, SignalChan, inProcess, inReload,
                histVars, execVars>>

\* the goroutine sees ctx cancelled and returns (wg.Done); the goroutine of
\* a Onetime backend returns without watching or ticking
WorkerStop(w) ==
    /\ workerPc[w] = "run"
    /\ ctxDone \/ backends[w[2]].Onetime
    /\ workerPc' = [workerPc EXCEPT ![w] = "done"]
    /\ wg' = wg - 1
    /\ UNCHANGED errChan
    /\ workerFrame

\* a fatal error ends the watch
WatchFatal(w) ==
    /\ w[1] = "watch"
    /\ workerPc[w] = "run"
    /\ ~ctxDone
    /\ ~backends[w[2]].Onetime
    /\ workerPc' = [workerPc EXCEPT ![w] = "done"]
    /\ wg' = wg - 1
    /\ UNCHANGED errChan
    /\ workerFrame

\* a change is observed (watch) or the interval elapses: processChan <- s
WorkerEvent(w) ==
    /\ workerPc[w] = "run"
    /\ ~ctxDone
    /\ ~backends[w[2]].Onetime
    /\ workerPc' = [workerPc EXCEPT ![w] = "sendProc"]
    /\ UNCHANGED <<wg, errChan>>
    /\ workerFrame

\* a transient error of the watch: errChan <- BackendError{...}; the send
\* blocks while the buffer is full
WatchError(w) ==
    /\ w[1] = "watch"
    /\ workerPc[w] = "run"
    /\ ~ctxDone
    /\ ~backends[w[2]].Onetime
    /\ IF Len(errChan) < ErrChanCap
           THEN /\ errChan' = Append(errChan, backends[w[2]].Name)
                /\ workerPc' = workerPc
           ELSE /\ errChan' = errChan
                /\ workerPc' = [workerPc EXCEPT ![w] = "sendErr"]
    /\ UNCHANGED wg
    /\ workerFrame

\* the blocked send on errChan completes when the buffer has room
WatchErrSent(w) ==
    /\ workerPc[w] = "sendErr"
    /\ Len(errChan) < ErrChanCap
    /\ errChan' = Append(errChan, backends[w[2]].Name)
    /\ workerPc' = [workerPc EXCEPT ![w] = "run"]
    /\ UNCHANGED wg
    /\ workerFrame

\* for range processChan {}: the drain goroutine takes a pending send
DrainRecv(w) ==
    /\ drain
    /\ workerPc[w] = "sendProc"
    /\ workerPc' = [workerPc EXCEPT ![w] = "run"]
    /\ UNCHANGED <<wg, errChan>>
    /\ workerFrame

-----------------------------------------------------------------------------
(* Monitor: the main loop *)

\* MonitorRecvProcess with "go t.process(...)": the loop goes on at once
MonitorRecvProcessAsync(w) ==
    /\ monitorPc = "select"
    /\ workerPc[w] = "sendProc"
    /\ workerPc' = [workerPc EXCEPT ![w] = "run"]
    /\ procArg' = <<w[2]>>
    /\ inProcess' = inProcess + 1
    /\ monitorPc' = "select"
    /\ UNCHANGED <<confVars, dataVars, Failed, changed, err, ctxDone, retryChan,
                   timers, sending, child, watchdog, wg, waiter, drain,
                   processChan, errChan, SignalChan, inReload, histVars, execVars>>

\* case storeClient := <-processChan: the send of worker w is taken and
\* t.process([]Backend{storeClient}) is called
MonitorRecvProcess(w) ==
    /\ monitorPc = "select"
    /\ workerPc[w] = "sendProc"
    /\ workerPc' = [workerPc EXCEPT ![w] = "run"]
    /\ procArg' = <<w[2]>>
    /\ inProcess' = inProcess + 1
    /\ monitorPc' = "process"
    /\ UNCHANGED <<confVars, dataVars, Failed, changed, err, ctxDone, retryChan, timers, sending, child, watchdog, wg, waiter,
                   drain, processChan, errChan, SignalChan, inReload, histVars, execVars>>

\* changed, err := t.process([]Backend{storeClient}) returns
MonitorProcessReturns ==
    /\ monitorPc = "process"
    /\ \E r \in ProcessResults(procArg) :
          /\ bstore' = r.bstore
          /\ store' = r.store
          /\ dst' = r.dst
          /\ changed' = r.changed
          /\ err' = r.err
    /\ inProcess' = inProcess - 1
    /\ procArg' = <<>>
    /\ monitorPc' = "branch"
    /\ UNCHANGED <<confVars, Failed, ctxDone, retryChan, timers,
                   sending, child, watchdog, workerPc, wg, waiter, drain,
                   processChan, errChan, SignalChan, inReload, histVars, execVars>>

\* CallsReload without the look at changed
CallsReloadUnchanged(c, e) == e = NoErr

\* if err != nil { log } else if changed { t.exec.Reload() }
CallsReload(c, e) == e = NoErr /\ c

MonitorHandleResult ==
    /\ monitorPc = "branch"
    /\ IF CallsReload(changed, err)
           THEN /\ inReload' = inReload + 1
                /\ monitorPc' = "reload"
           ELSE /\ inReload' = inReload
                /\ monitorPc' = "select"
    /\ changed' = FALSE
    /\ err' = NoErr
    /\ reloadErr' = FALSE
    /\ UNCHANGED <<sigArg, stopCalls>>
    /\ UNCHANGED <<confVars, dataVars, Failed, procArg, ctxDone, retryChan, timers, sending, child, watchdog, workerPc, wg,
                   waiter, drain, processChan, errChan, SignalChan, inProcess,
                   histVars>>

\* MonitorReloadReturns with an error of exec.Reload taken as the child's
\* failure
MonitorReloadErrFails ==
    /\ monitorPc = "reload"
    /\ \E e \in BOOLEAN :
          /\ reloadErr' = e
          /\ Failed' = (Failed \/ e)
          /\ ctxDone' = (ctxDone \/ e)
    /\ inReload' = inReload - 1
    /\ monitorPc' = "select"
    /\ UNCHANGED <<confVars, dataVars, procArg, changed, err,
                   retryChan, timers, sending, child, watchdog,
                   workerPc, wg, waiter, drain, processChan, errChan, SignalChan,
                   inProcess, histVars, sigArg, stopCalls>>

\* if err := t.exec.Reload(); err != nil { log }: Reload returns
MonitorReloadReturns ==
    /\ monitorPc = "reload"
    /\ \E e \in BOOLEAN : reloadErr' = e
    /\ inReload' = inReload - 1
    /\ monitorPc' = "select"
    /\ UNCHANGED <<confVars, dataVars, Failed, procArg, changed, err, ctxDone,
                   retryChan, timers, sending, child, watchdog,
                   workerPc, wg, waiter, drain, processChan, errChan, SignalChan,
                   inProcess, histVars, sigArg, stopCalls>>

\* MonitorSignal with the reload signal sent in place of the received one
MonitorSignalHup ==
    /\ monitorPc = "select"
    /\ SignalChan # <<>>
    /\ SignalChan' = Tail(SignalChan)
    /\ sigArg' = "SIGHUP"
    /\ monitorPc' = "signal"
    /\ UNCHANGED <<confVars, dataVars, Failed, procArg, changed, err,
                   ctxDone, retryChan, timers, sending, child,
                   watchdog, workerPc, wg, waiter, drain, processChan, errChan,
                   inProcess, inReload, histVars, reloadErr, stopCalls>>

\* case s := <-t.SignalChan: t.exec.SignalChild(s) is called
MonitorSignal ==
    /\ monitorPc = "select"
    /\ SignalChan # <<>>
    /\ SignalChan' = Tail(SignalChan)
    /\ sigArg' = Head(SignalChan)
    /\ monitorPc' = "signal"
    /\ UNCHANGED <<confVars, dataVars, Failed, procArg, changed, err,
                   ctxDone, retryChan, timers, sending, child,
                   watchdog, workerPc, wg, waiter, drain, processChan, errChan,
                   inProcess, inReload, histVars, reloadErr, stopCalls>>

\* t.exec.SignalChild(s) returns
MonitorSignalReturns ==
    /\ monitorPc = "signal"
    /\ sigArg' = "none"
    /\ monitorPc' = "select"
    /\ UNCHANGED <<confVars, dataVars, Failed, procArg, changed, err,
                   ctxDone, retryChan, timers, sending, child,
                   watchdog, workerPc, wg, waiter, drain, processChan, errChan,
                   SignalChan, inProcess, inReload, histVars, reloadErr,
                   stopCalls>>

\* case err := <-errChan: log
MonitorErrChan ==
    /\ monitorPc = "select"
    /\ errChan # <<>>
    /\ errChan' = Tail(errChan)
    /\ UNCHANGED <<confVars, dataVars, Failed, monitorPc, procArg, changed, err,
                   ctxDone, retryChan, timers, sending, child,
                   watchdog, workerPc, wg, waiter, drain, processChan,
                   SignalChan, inProcess, inReload, histVars, execVars>>

\* case <-ctx.Done(): start the drain goroutine, then wg.Wait()
MonitorCtxDone ==
    /\ monitorPc = "select"
    /\ ctxDone
    /\ drain' = TRUE
    /\ monitorPc' = "wait"
    /\ UNCHANGED <<confVars, dataVars, Failed, procArg, changed, err, ctxDone,
                   retryChan, timers, sending, child, watchdog,
                   workerPc, wg, waiter, processChan, errChan, SignalChan,
                   inProcess, inReload, histVars, execVars>>

\* MonitorWaitReturns without wg.Wait()
MonitorReturnsUnwaited ==
    /\ monitorPc = "wait"
    /\ Return(~spawnErr)
    /\ UNCHANGED <<confVars, dataVars, Failed, procArg, changed, err, retryChan,
                   timers, sending, watchdog, workerPc, wg, waiter, errChan,
                   SignalChan, inProcess, inReload, histVars, reloadErr, sigArg>>

\* wg.Wait() returns; return
MonitorWaitReturns ==
    /\ monitorPc = "wait"
    /\ wg = 0
    /\ Return(~spawnErr)
    /\ UNCHANGED <<confVars, dataVars, Failed, procArg, changed, err, retryChan, timers, sending, watchdog, workerPc, wg, waiter,
                   errChan, SignalChan, inProcess, inReload, histVars, reloadErr, sigArg>>

\* MonitorDone with exec.StopChild deferred whatever SpawnChild returned
MonitorDoneStops ==
    /\ monitorPc = "select"
    /\ waiter = "closed"
    /\ Return(TRUE)
    /\ UNCHANGED <<confVars, dataVars, Failed, procArg, changed, err, retryChan,
                   timers, sending, watchdog, workerPc, wg, waiter, errChan,
                   SignalChan, inProcess, inReload, histVars, reloadErr, sigArg>>

\* case <-done: return
MonitorDone ==
    /\ monitorPc = "select"
    /\ waiter = "closed"
    /\ Return(~spawnErr)
    /\ UNCHANGED <<confVars, dataVars, Failed, procArg, changed, err, retryChan, timers, sending, watchdog, workerPc, wg, waiter,
                   errChan, SignalChan, inProcess, inReload, histVars, reloadErr, sigArg>>

-----------------------------------------------------------------------------
(* The environment *)

Running == monitorPc \notin {"idle", "returned"}

\* the caller cancels the ctx it gave to Monitor
UserCancel ==
    /\ Running
    /\ ~ctxDone
    /\ ctxDone' = TRUE
    /\ cancelInSleep' = (monitorPc = "retry" /\ timers > 0)
    /\ UNCHANGED <<confVars, dataVars, Failed, monitorPc, procArg, changed, err,
                   retryChan, timers, sending, child, watchdog, workerPc, wg,
                   waiter, drain, processChan, errChan, SignalChan, inProcess,
                   inReload, spawnErr, waitTrue, spawnOk, execVars>>

\* the child exits on its own while ctx is live
ChildExit ==
    /\ child = "running"
    /\ ~ctxDone
    /\ child' = "exited"
    /\ UNCHANGED <<confVars, dataVars, Failed, monitorPc, procArg, changed, err,
                   ctxDone, retryChan, timers, sending, watchdog,
                   workerPc, wg, waiter, drain, processChan, errChan, SignalChan,
                   inProcess, inReload, histVars, execVars>>

\* a signal for the children is put on SignalChan
SendSignal(s) ==
    /\ Running
    /\ Len(SignalChan) < SignalChanCap
    /\ SignalChan' = Append(SignalChan, s)
    /\ UNCHANGED <<confVars, dataVars, Failed, monitorPc, procArg, changed, err,
                   ctxDone, retryChan, timers, sending, child,
                   watchdog, workerPc, wg, waiter, drain, processChan, errChan,
                   inProcess, inReload, histVars, execVars>>

-----------------------------------------------------------------------------
(* Specifications *)

MonitorStep ==
    \/ MonitorEnter
    \/ MonitorRetryCtxDone
    \/ MonitorRetryRecv
    \/ MonitorInitProcessReturns
    \/ MonitorInitBranch
    \/ MonitorSpawn
    \/ MonitorStart
    \/ \E w \in Workers : MonitorRecvProcess(w)
    \/ MonitorProcessReturns
    \/ MonitorHandleResult
    \/ MonitorReloadReturns
    \/ MonitorSignal
    \/ MonitorSignalReturns
    \/ MonitorErrChan
    \/ MonitorCtxDone
    \/ MonitorWaitReturns
    \/ MonitorDone

WorkerStep(w) ==
    \/ WorkerStop(w)
    \/ WatchFatal(w)
    \/ WorkerEvent(w)
    \/ WatchError(w)
    \/ WatchErrSent(w)
    \/ DrainRecv(w)

Environment ==
    \/ UserCancel
    \/ ChildExit
    \/ \E s \in Signals : SendSignal(s)

Next ==
    \/ MonitorStep
    \/ RetryWake
    \/ RetrySend
    \/ WatchdogWaitReturns
    \/ WaiterClose
    \/ \E w \in Workers : WorkerStep(w)
    \/ Environment

Spec == Init /\ [][Next]_vars

\* One of the steps of MonitorInitProcessReturns and of MonitorProcessReturns:
\* GetValues fails for the first backend.  A call in progress can always
\* take it, so fairness on it says that no call of process hangs.
InitProcessFails ==
    /\ monitorPc = "initProcess"
    /\ err' = BackendError(backends[procArg[1]].Name)
    /\ inProcess' = inProcess - 1
    /\ monitorPc' = "initBranch"
    /\ UNCHANGED <<confVars, dataVars, Failed, procArg, changed, ctxDone,
                   retryChan, timers, sending, child, watchdog, workerPc, wg,
                   waiter, drain, processChan, errChan, SignalChan, inReload,
                   histVars, execVars>>

ProcessFails ==
    /\ monitorPc = "process"
    /\ changed' = FALSE
    /\ err' = BackendError(backends[procArg[1]].Name)
    /\ inProcess' = inProcess - 1
    /\ procArg' = <<>>
    /\ monitorPc' = "branch"
    /\ UNCHANGED <<confVars, dataVars, Failed, ctxDone, retryChan, timers,
                   sending, child, watchdog, workerPc, wg, waiter, drain,
                   processChan, errChan, SignalChan, inReload, histVars, execVars>>

\* the steps of the program that the caller and the backends do not drive:
\* every step of a goroutine but the receipt of a signal
Progress ==
    \/ MonitorRetryCtxDone
    \/ MonitorRetryRecv
    \/ InitProcessFails
    \/ ProcessFails
    \/ MonitorInitBranch
    \/ MonitorSpawn
    \/ MonitorStart
    \/ \E w \in Workers : MonitorRecvProcess(w)
    \/ MonitorHandleResult
    \/ MonitorReloadReturns
    \/ MonitorErrChan
    \/ MonitorCtxDone
    \/ MonitorWaitReturns
    \/ MonitorDone
    \/ RetryWake
    \/ RetrySend
    \/ WatchdogWaitReturns
    \/ WaiterClose
    \/ \E w \in Workers : WorkerStop(w) \/ WatchErrSent(w) \/ DrainRecv(w)

\* The scheduler runs every goroutine that can take a step, so the program
\* does not stop while one of its goroutines can go on, and a call of
\* exec.SignalChild returns.  Monitor's select picks at random among the cases
\* that are ready, so a case that is ready again and again is taken: signals
\* that keep arriving do not keep the select from its other cases.  Events,
\* errors, signals, the child's exit and the caller's cancel are the
\* environment's and carry no fairness.
Fairness == SF_vars(Progress) /\ WF_vars(MonitorSignalReturns)

FairSpec == Init /\ [][Next]_vars /\ Fairness

\* Monitor on a resource whose second backend is Onetime, under each setting
\* of that backend's Watch and Interval
OnetimeInit ==
    /\ \E wt \in BOOLEAN, iv \in {0, 30} :
           backends = NewResourceBackends(<<
               [Name |-> "b1", Prefix |-> <<"/", "a">>, Keys |-> <<Slash>>,
                Watch |-> TRUE, Interval |-> 0, Onetime |-> FALSE],
               [Name |-> "b2", Prefix |-> <<"/", "b">>, Keys |-> <<Slash>>,
                Watch |-> wt, Interval |-> iv, Onetime |-> TRUE]>>)
    /\ sources = <<[Src |-> "t1"], [Src |-> "t2"]>>
    /\ remote = <<{<<(<<"/", "a", "/", "x">>), 1>>}, {}>>
    /\ bstore = [i \in 1..Len(backends) |-> EmptyStore]
    /\ store = EmptyStore
    /\ dst = [i \in 1..Len(sources) |-> Absent]
    /\ Failed = FALSE
    /\ InitRun

OnetimeSpec == OnetimeInit /\ [][Next]_vars

-----------------------------------------------------------------------------
(* Construction alone: NewResource and NewResourceFromResourceConfig over *)
(* every list of backends and of renderers within the bounds               *)

BackendConfigs ==
    [Name : {"b"}, Prefix : {Slash}, Keys : {<<Slash>>},
     Watch : BOOLEAN, Interval : {-1, 0, 30}, Onetime : BOOLEAN]

SourceConfigs == [Src : {"", "t1"}]

NewInit ==
    /\ backends \in UNION {[1..n -> BackendConfigs] : n \in 0..MaxBackends}
    /\ sources \in UNION {[1..n -> SourceConfigs] : n \in 0..MaxSources}
    /\ remote = [i \in 1..Len(backends) |-> {}]
    /\ bstore = [i \in 1..Len(backends) |-> EmptyStore]
    /\ store = EmptyStore
    /\ dst = [i \in 1..Len(sources) |-> Absent]
    /\ Failed = FALSE
    /\ monitorPc = "new"
    /\ newErr = "none"
    /\ closed = {}
    /\ NotStarted

newFrame ==
    UNCHANGED <<sources, remote, dataVars, Failed, procArg, changed, err,
                ctxDone, retryChan, timers, sending, child, watchdog, workerPc,
                wg, waiter, drain, processChan, errChan, SignalChan, inProcess,
                inReload, histVars, execVars>>

\* NewResource called by itself
CallNewResource ==
    /\ monitorPc = "new"
    /\ LET r == NewResource(backends, sources)
       IN  /\ newErr' = r.err
           /\ backends' = r.backends
           /\ monitorPc' = IF r.err = "nil" THEN "idle" ELSE "invalid"
    /\ closed' = closed
    /\ newFrame

\* NewResourceFromResourceConfig up to the return of ConnectAll
ConnectAll ==
    /\ monitorPc = "new"
    /\ \E ok \in BOOLEAN :
          IF ok THEN /\ monitorPc' = "connected"
                     /\ newErr' = newErr
                ELSE /\ monitorPc' = "invalid"
                     /\ newErr' = "connectAll"
    /\ UNCHANGED <<backends, closed>>
    /\ newFrame

\* NewResourceFromResourceConfig from there: NewResource(backendList, ...)
\* and, on its error, Close on every backend of backendList
NewResourceFromResourceConfig ==
    /\ monitorPc = "connected"
    /\ LET r == NewResource(backends, sources)
       IN  /\ newErr' = r.err
           /\ backends' = r.backends
           /\ monitorPc' = IF r.err = "nil" THEN "idle" ELSE "invalid"
           /\ closed' = IF r.err = "nil" THEN closed ELSE 1..Len(backends)
    /\ newFrame

NewNext ==
    \/ CallNewResource
    \/ ConnectAll
    \/ NewResourceFromResourceConfig

NewSpec == NewInit /\ [][NewNext]_vars

-----------------------------------------------------------------------------
(* The stores alone: process as Monitor calls it, first over all backends *)
(* until it succeeds, then for one backend at a time                      *)

RawKeys ==
    <<{<<"/", "a", "/", "x">>, <<"/", "a", "/", "y">>},
      {<<"/", "b", "/", "x">>},
      {<<"/", "c", "/", "x">>}>>

StoreInit ==
    /\ backends = NewResourceBackends(<<
           [Name |-> "b1", Prefix |-> <<"/", "a">>, Keys |-> <<Slash>>,
            Watch |-> TRUE, Interval |-> 0, Onetime |-> FALSE],
           [Name |-> "b2", Prefix |-> <<"/", "b">>, Keys |-> <<Slash>>,
            Watch |-> FALSE, Interval |-> 0, Onetime |-> FALSE],
           [Name |-> "b3", Prefix |-> <<"/", "c">>, Keys |-> <<Slash>>,
            Watch |-> TRUE, Interval |-> 30, Onetime |-> FALSE]>>)
    /\ sources = <<>>
    /\ remote = [i \in 1..3 |-> RawKeys[i] \X Values]
    /\ bstore = [i \in 1..Len(backends) |-> EmptyStore]
    /\ store = EmptyStore
    /\ dst = [i \in 1..Len(sources) |-> Absent]
    /\ Failed = FALSE
    /\ InitRun

\* procArg keeps the storeClients argument of the call made last
storeFrame ==
    UNCHANGED <<confVars, Failed, changed, ctxDone, retryChan, timers,
                sending, child, watchdog, workerPc, wg, waiter, drain,
                processChan, errChan, SignalChan, inProcess, inReload, histVars, execVars>>

\* t.process(t.backends) of the retry loop
CallProcessAll ==
    /\ monitorPc \in {"idle", "retry"}
    /\ \E r \in ProcessResults(AllBackends) :
          /\ bstore' = r.bstore
          /\ store' = r.store
          /\ dst' = r.dst
          /\ err' = r.err
          /\ monitorPc' = IF r.err = NoErr THEN "select" ELSE "retry"
    /\ procArg' = AllBackends
    /\ storeFrame

\* t.process([]Backend{storeClient}) of the main loop
CallProcessOne(i) ==
    /\ monitorPc = "select"
    /\ \E r \in ProcessResults(<<i>>) :
          /\ bstore' = r.bstore
          /\ store' = r.store
          /\ dst' = r.dst
          /\ err' = r.err
    /\ monitorPc' = monitorPc
    /\ procArg' = <<i>>
    /\ storeFrame

StoreNext ==
    \/ CallProcessAll
    \/ \E i \in 1..Len(backends) : CallProcessOne(i)

StoreSpec == StoreInit /\ [][StoreNext]_vars

-----------------------------------------------------------------------------
(* Claims *)

BackendIds == 1..Len(backends)

\* the backend whose value the claim gives key k: the last one holding it
LastHolder(k) ==
    CHOOSE i \in BackendIds :
        /\ k \in DOMAIN bstore[i]
        /\ \A j \in BackendIds : j > i => k \notin DOMAIN bstore[j]

\* C1: after every setVars, hence after any sequence of process calls, the
\* merged store holds exactly the keys of the private stores, and a key held
\* by several backends has the value of the backend declared last.
C1_MergedIsUnionLastWins ==
    /\ DOMAIN store = UNION {DOMAIN bstore[i] : i \in BackendIds}
    /\ \A k \in DOMAIN store : store[k] = bstore[LastHolder(k)][k]

\* C1's case: after a successful process, a key is held by two backends with
\* different values, next to a key held by the first backend only
C1_Witness ==
    /\ monitorPc = "select"
    /\ \E k \in DOMAIN bstore[1] \cap DOMAIN bstore[3] : bstore[1][k] # bstore[3][k]
    /\ \E k \in DOMAIN bstore[1] : k \notin DOMAIN bstore[2] \cup DOMAIN bstore[3]

\* C2: process and exec.Reload run on the Monitor goroutine only: a call in
\* progress is the Monitor goroutine's, and never are two of them in progress.
C2_OneProcessOrReload ==
    /\ inProcess + inReload <= 1
    /\ inProcess = 1 <=> monitorPc \in {"initProcess", "process"}
    /\ inReload = 1 <=> monitorPc = "reload"

\* C2's case: a process call is in progress while the watch and the interval
\* goroutine each wait to hand over a further event
C2_Witness ==
    /\ monitorPc = "process"
    /\ inProcess = 1
    /\ \A w \in Workers : workerPc[w] # "none" => workerPc[w] = "sendProc"

\* C3: for an event taken from processChan, exec.Reload is called once, and
\* after process has returned, when process returned changed without an
\* error, and is not called when process returned changed=false.
C3_ReloadOncePerChange ==
    [][/\ (monitorPc = "branch" /\ monitorPc' # "branch") =>
              /\ (changed /\ err = NoErr) =>
                     (monitorPc' = "reload" /\ inReload' = inReload + 1)
              /\ ~changed => (monitorPc' = "select" /\ inReload' = inReload)
       /\ inReload' > inReload => (monitorPc = "branch" /\ inProcess = 0)
       /\ monitorPc = "reload" =>
              (inReload' <= inReload /\ monitorPc' \in {"reload", "select"})
      ]_vars

\* C3's case: the Reload for a changed destination is in progress
C3_Witness ==
    /\ monitorPc = "reload"
    /\ inReload = 1
    /\ \E i \in DOMAIN dst : dst[i].exists /\ dst[i].bytes # EmptyStore

\* C4: whenever process reports changed=true for an event, exec.Reload is
\* called for it, an error returned with changed=true included.
C4_ReloadWheneverChanged ==
    [][(monitorPc = "branch" /\ changed /\ monitorPc' # "branch") =>
           monitorPc' = "reload"]_vars

\* C5: SpawnChild is called and the goroutines are started only after a
\* process call over all backends has returned without an error, and every
\* process call of the retry loop is over all backends.
C5_SpawnAfterFullProcess ==
    /\ [](monitorPc \in {"initProcess", "initBranch"} => procArg = AllBackends)
    /\ [][/\ (monitorPc' = "spawn" /\ monitorPc # "spawn") =>
                 (monitorPc = "initBranch" /\ err = NoErr /\ procArg = AllBackends)
          /\ (monitorPc' = "initBranch" /\ monitorPc # "initBranch") =>
                 (monitorPc = "initProcess" /\ inProcess' = inProcess - 1)
          /\ (child' = "running" /\ child # "running") => monitorPc = "spawn"
          /\ (monitorPc' = "start" /\ monitorPc # "start") => monitorPc = "spawn"
          /\ (watchdog' = "waiting" /\ watchdog # "waiting") => monitorPc = "start"
          /\ \A w \in Workers :
                 (workerPc[w] = "none" /\ workerPc'[w] # "none") => monitorPc = "start"
         ]_vars

\* C5's case: the child and the goroutines run, all backends fetched
C5_Witness ==
    /\ monitorPc = "select"
    /\ child = "running"
    /\ watchdog = "waiting"
    /\ \E w \in Workers : workerPc[w] = "run"
    /\ bstore[1] # EmptyStore

\* C6: when the caller cancels ctx during the retry delay, Monitor returns,
\* without a further process call, without SpawnChild or StopChild, without
\* starting a goroutine, and with Failed = false.
C6_CancelDuringRetryDelay ==
    /\ [](cancelInSleep =>
            /\ monitorPc \in {"retry", "returned"}
            /\ inProcess = 0
            /\ child = "none"
            /\ ~spawnErr
            /\ watchdog = "none"
            /\ \A w \in Workers : workerPc[w] = "none"
            /\ Failed = FALSE)
    /\ (cancelInSleep ~> (cancelInSleep /\ monitorPc = "returned"))

\* C6's case: Monitor has returned after a cancel during the retry delay
C6_Witness ==
    /\ cancelInSleep
    /\ monitorPc = "returned"

InMainLoop ==
    monitorPc \in {"select", "process", "branch", "reload", "signal", "wait"}

\* C7: once Monitor is in its main loop and ctx is cancelled, Monitor
\* returns.
C7_ReturnsAfterCancel == (InMainLoop /\ ctxDone) ~> (monitorPc = "returned")

\* C8: when exec.Wait returns true, Failed is set, ctx is cancelled, and
\* Monitor returns with Failed = true.
C8_ChildExitFails ==
    /\ [](waitTrue => Failed /\ ctxDone)
    /\ (waitTrue ~> (monitorPc = "returned" /\ Failed))

\* C9: when exec.SpawnChild returns an error, Failed is set, ctx is
\* cancelled, and Monitor returns with Failed still true.
C9_SpawnErrorFails ==
    /\ [](spawnErr => Failed /\ ctxDone)
    /\ (spawnErr ~> (spawnErr /\ monitorPc = "returned" /\ Failed))

\* C9's case: Monitor has returned after a failed SpawnChild
C9_Witness ==
    /\ spawnErr
    /\ monitorPc = "returned"
    /\ Failed
    /\ \E w \in Workers : workerPc[w] = "done"

\* C10: Failed is false from Monitor's entry on until SpawnChild is called,
\* and when Monitor returns Failed tells whether SpawnChild returned an error
\* or exec.Wait returned true in that run.
C10_FailedTellsChildFailure ==
    /\ monitorPc \in {"retry", "initProcess", "initBranch", "spawn"} => ~Failed
    /\ monitorPc = "returned" => (Failed <=> (spawnErr \/ waitTrue))

\* C10's case: a run with a running child, ended by the caller's cancel
C10_Witness ==
    /\ monitorPc = "returned"
    /\ ~Failed
    /\ watchdog = "done"

\* C11: in the main loop an error returned by process, a BackendError taken
\* from errChan and an error returned by exec.Reload are logged and nothing
\* more: Monitor is back at its select, ctx is not cancelled by it and Failed
\* keeps its value.
C11_ErrorsOnlyLogged ==
    [][/\ (monitorPc = "branch" /\ err # NoErr /\ monitorPc' # "branch") =>
              (monitorPc' = "select" /\ Failed' = Failed /\ ctxDone' = ctxDone)
       /\ (monitorPc = "select" /\ errChan # <<>> /\ errChan' = Tail(errChan)) =>
              (monitorPc' = "select" /\ Failed' = Failed /\ ctxDone' = ctxDone)
       /\ (monitorPc = "reload" /\ monitorPc' # "reload" /\ reloadErr') =>
              (monitorPc' = "select" /\ Failed' = Failed /\ ctxDone' = ctxDone)
      ]_vars

\* C11's case: exec.Reload has returned an error, a BackendError waits in
\* errChan, and Monitor is at its select with ctx live and Failed = false
C11_Witness ==
    /\ monitorPc = "select"
    /\ reloadErr
    /\ errChan # <<>>
    /\ ~ctxDone
    /\ ~Failed

\* C12: a signal taken from SignalChan causes one exec.SignalChild call with
\* that signal and nothing else: no process, no Reload, no change of a store
\* or a destination or of Failed, and Monitor goes on with its select.
C12_SignalForwardedOnly ==
    /\ [](monitorPc = "signal" <=> sigArg # "none")
    /\ [](monitorPc = "signal" => (inProcess = 0 /\ inReload = 0))
    /\ [][/\ (SignalChan # <<>> /\ SignalChan' = Tail(SignalChan)) =>
                 /\ monitorPc = "select"
                 /\ monitorPc' = "signal"
                 /\ sigArg' = Head(SignalChan)
                 /\ UNCHANGED <<dataVars, Failed, ctxDone, inProcess, inReload,
                                child, stopCalls>>
          /\ (sigArg' # sigArg /\ sigArg' # "none") =>
                 (SignalChan # <<>> /\ SignalChan' = Tail(SignalChan))
          /\ (monitorPc = "signal" /\ monitorPc' # "signal") =>
                 /\ monitorPc' = "select"
                 /\ UNCHANGED <<dataVars, Failed, ctxDone, inProcess, inReload,
                                child, stopCalls, SignalChan>>
         ]_vars

\* C12's case: SignalChild is called with SIGUSR1 for a running child, the
\* stores filled
C12_Witness ==
    /\ monitorPc = "signal"
    /\ sigArg = "SIGUSR1"
    /\ child = "running"
    /\ store # EmptyStore

\* C13: handling an event for backend b fetches b only and replaces b's
\* private store only; the private store of every other backend is left as
\* it was, and the merged store is rebuilt from the private stores of all
\* backends.
C13_OnlyEventBackendRefetched ==
    [][(monitorPc = "select" /\ monitorPc' = "select") =>
           /\ Len(procArg') = 1
           /\ \A j \in BackendIds \ {procArg'[1]} : bstore'[j] = bstore[j]
           /\ \A j \in BackendIds : DOMAIN bstore'[j] \subseteq DOMAIN store'
           /\ \A k \in DOMAIN store' :
                  \E j \in BackendIds :
                      /\ k \in DOMAIN bstore'[j]
                      /\ store'[k] = bstore'[j][k]
                      /\ \A h \in BackendIds : h > j => k \notin DOMAIN bstore'[h]
      ]_vars

\* C13's case: after an event for the second backend alone, the merged store
\* still holds a key that only the first backend has and a key of the third
C13_Witness ==
    /\ monitorPc = "select"
    /\ procArg = <<2>>
    /\ err = NoErr
    /\ bstore[2] # EmptyStore
    /\ \E k \in DOMAIN bstore[1] :
           k \notin DOMAIN bstore[2] \cup DOMAIN bstore[3] /\ k \in DOMAIN store
    /\ \E k \in DOMAIN bstore[3] : store[k] = bstore[3][k]

\* C14: Monitor starts no watch goroutine and no interval goroutine for a
\* backend with Onetime = true, whatever its Watch and Interval are.
C14_OnetimeNeverStarted ==
    \A w \in Workers : backends[w[2]].Onetime => workerPc[w] = "none"

\* C15: NewResource sets Interval to 60 for exactly the backends with
\* Interval <= 0, Watch = false and Onetime = false and leaves every other
\* backend as it is; so after construction every backend that is not Onetime
\* has Watch = true or Interval > 0.
C15_IntervalDefault ==
    /\ [](newErr = "nil" =>
             \A i \in DOMAIN backends :
                 ~backends[i].Onetime =>
                     (backends[i].Watch \/ backends[i].Interval > 0))
    /\ [][(newErr = "none" /\ newErr' = "nil") =>
              /\ DOMAIN backends' = DOMAIN backends
              /\ \A i \in DOMAIN backends :
                     backends'[i] =
                         [backends[i] EXCEPT !.Interval =
                             IF /\ backends[i].Interval <= 0
                                /\ ~backends[i].Watch
                                /\ ~backends[i].Onetime
                                 THEN 60 ELSE @]
         ]_vars

\* C15's case: a Resource whose first backend got the default and whose
\* second, Onetime with Interval 0 and no Watch, was left alone
C15_Witness ==
    /\ newErr = "nil"
    /\ Len(backends) = 2
    /\ backends[1].Interval = 60
    /\ backends[2].Onetime /\ ~backends[2].Watch /\ backends[2].Interval = 0

C17_OneRetryPerFailure ==
    /\ [](timers + sending + retryChan <= 1)
    /\ [](sending > 0 => retryChan = 0)
    /\ [](monitorPc \in {"initProcess", "initBranch"} =>
             timers + sending + retryChan = 0)
    /\ [][(monitorPc = "initBranch" /\ monitorPc' # "initBranch") =>
              IF err # NoErr
                  THEN timers' = timers + 1 /\ monitorPc' = "retry"
                  ELSE timers' = timers /\ monitorPc' = "spawn"
         ]_vars
    /\ ((monitorPc = "initBranch" /\ err # NoErr)
            ~> (monitorPc = "initProcess" \/ ctxDone))
    /\ ((monitorPc = "initBranch" /\ err = NoErr) ~> (monitorPc = "spawn"))

\* C17's case: after a failure the retry goroutine has slept, found ctx live
\* and is about to send its token on the empty retryChan
C17_Witness ==
    /\ monitorPc = "retry"
    /\ sending = 1
    /\ retryChan = 0
    /\ ~ctxDone

\* C18: when Monitor has returned, the watchdog and every watch and interval
\* goroutine it started have ended, so processChan is closed only when
\* nothing can send on it any more.
C18_GoroutinesEndBeforeReturn ==
    /\ monitorPc = "returned" =>
           /\ watchdog \in {"none", "done"}
           /\ \A w \in Workers : workerPc[w] \in {"none", "done"}
    /\ processChan = "closed" =>
           \A w \in Workers : workerPc[w] \notin {"run", "sendProc", "sendErr"}

\* C18's case: Monitor has returned from a run with a child, and the
\* watchdog and both goroutines it had started are done
C18_Witness ==
    /\ monitorPc = "returned"
    /\ spawnOk
    /\ processChan = "closed"
    /\ watchdog = "done"
    /\ \A w \in Workers : Started(w) => workerPc[w] = "done"

\* C19: when GetValues fails for a backend, its private store and every
\* store behind it in the call, and all destinations, are as before; in the
\* main loop, where the call is for one backend, nothing has changed at all
\* and process returns changed = false with a BackendError naming the
\* backend.
C19_GetValuesFailureFrame ==
    [][/\ (monitorPc = "process" /\ monitorPc' = "branch"
               /\ err'.kind = "BackendError") =>
              /\ bstore' = bstore
              /\ store' = store
              /\ dst' = dst
              /\ ~changed'
              /\ err'.Backend = backends[procArg[1]].Name
       /\ (monitorPc = "initProcess" /\ monitorPc' = "initBranch"
               /\ err'.kind = "BackendError") =>
              /\ dst' = dst
              /\ \E j \in 1..Len(procArg) :
                     /\ err'.Backend = backends[procArg[j]].Name
                     /\ \A k \in j..Len(procArg) :
                            bstore'[procArg[k]] = bstore[procArg[k]]
                     /\ j = 1 => (bstore' = bstore /\ store' = store)
              /\ DOMAIN store' = UNION {DOMAIN bstore'[i] : i \in BackendIds}
      ]_vars

\* C19's case: in the main loop GetValues has failed for a backend whose
\* private store is filled, the destinations written
C19_Witness ==
    /\ monitorPc = "branch"
    /\ err.kind = "BackendError"
    /\ err.Backend = "b1"
    /\ bstore[1] # EmptyStore
    /\ \A i \in DOMAIN dst : dst[i].exists

=============================================================================
